---- MODULE Spec2Model ----
(***************************************************************************)
(* EPL Data API (PowerGnu/EPL-Data-Host).                                  *)
(*                                                                         *)
(* The repository holds two revisions of one Flask application:            *)
(*   "app"  : src/app.py, lines 189-337 (the revision with logging)        *)
(*   "app1" : src/app1.py                                                  *)
(* The variable `variant` says which revision the process runs.            *)
(*                                                                         *)
(* Python strings are sequences of one-character strings, so that          *)
(* str.lower, str.isalpha, int() and datetime.strptime are computed        *)
(* character by character.                                                 *)
(***************************************************************************)
EXTENDS Integers, Sequences, FiniteSets, TLC

VARIABLES
    variant,   \* which revision runs: "app" or "app1"
    files,     \* the disk: path -> file content
    cache,     \* lru_cache of load_json_file: entries, least recently used first
    req,       \* the operation last performed (handler request or direct call)
    resp,      \* its outcome
    reads,     \* number of open() calls that operation made
    writes,    \* number of file changes made by the environment so far
    args,      \* arguments of a direct call of a pure function
    ret,       \* its outcome
    pc         \* "call" before the direct call, "done" after, "-" when unused

vars == <<variant, files, cache, req, resp, reads, writes, args, ret, pc>>

Variants == {"app", "app1"}

Max(a, b) == IF a >= b THEN a ELSE b
Min(a, b) == IF a <= b THEN a ELSE b

(***************************************************************************)
(* Python str                                                              *)
(***************************************************************************)
LowerLetters == <<"a","b","c","d","e","f","g","h","i","j","k","l","m",
                  "n","o","p","q","r","s","t","u","v","w","x","y","z">>
UpperLetters == <<"A","B","C","D","E","F","G","H","I","J","K","L","M",
                  "N","O","P","Q","R","S","T","U","V","W","X","Y","Z">>
DigitChars == <<"0","1","2","3","4","5","6","7","8","9">>

IsUpper(c) == \E i \in 1..Len(UpperLetters) : UpperLetters[i] = c
IsLower(c) == \E i \in 1..Len(LowerLetters) : LowerLetters[i] = c
IsDigit(c) == \E i \in 1..Len(DigitChars) : DigitChars[i] = c

\* str.lower(), one character
LowerChar(c) ==
    IF IsUpper(c)
    THEN LowerLetters[CHOOSE i \in 1..Len(UpperLetters) : UpperLetters[i] = c]
    ELSE c

\* str.lower()
Lower(s) == [i \in 1..Len(s) |-> LowerChar(s[i])]

\* str.isalpha(): non-empty and every character a letter
IsAlpha(s) == Len(s) > 0 /\ \A i \in 1..Len(s) : IsUpper(s[i]) \/ IsLower(s[i])

DigitVal(c) == (CHOOSE i \in 1..Len(DigitChars) : DigitChars[i] = c) - 1

AllDigits(s) == \A i \in 1..Len(s) : IsDigit(s[i])

RECURSIVE NumOf(_)
NumOf(s) == IF Len(s) = 0 THEN 0
            ELSE 10 * NumOf(SubSeq(s, 1, Len(s) - 1)) + DigitVal(s[Len(s)])

\* str(n) for an int n
RECURSIVE Dec(_)
Dec(n) == IF n < 10 THEN <<DigitChars[n + 1]>>
          ELSE Dec(n \div 10) \o <<DigitChars[(n % 10) + 1]>>
ToStr(n) == IF n < 0 THEN <<"-">> \o Dec(-n) ELSE Dec(n)

\* n written with at least w digits (zero padded), as in an ISO timestamp
RECURSIVE Pad(_, _)
Pad(n, w) == IF Len(Dec(n)) >= w THEN Dec(n) ELSE <<"0">> \o Pad(n, w - 1)

RECURSIVE LStrip(_)
LStrip(s) == IF Len(s) > 0 /\ s[1] = " " THEN LStrip(Tail(s)) ELSE s
RECURSIVE RStrip(_)
RStrip(s) == IF Len(s) > 0 /\ s[Len(s)] = " "
             THEN RStrip(SubSeq(s, 1, Len(s) - 1)) ELSE s

\* int(s) for a str s: surrounding blanks and one sign are accepted, then
\* one or more digits; anything else is ValueError (ok = FALSE).
PyInt(s) ==
    LET t == RStrip(LStrip(s))
        signed == Len(t) > 0 /\ t[1] \in {"-", "+"}
        d == IF signed THEN Tail(t) ELSE t
    IN  IF Len(d) > 0 /\ AllDigits(d)
        THEN [ok |-> TRUE, v |-> IF signed /\ t[1] = "-" THEN 0 - NumOf(d) ELSE NumOf(d)]
        ELSE [ok |-> FALSE, v |-> 0]

(***************************************************************************)
(* datetime.strptime                                                       *)
(***************************************************************************)
\* index of the first occurrence of c in s, 0 when there is none
RECURSIVE IndexFrom(_, _, _)
IndexFrom(s, c, i) == IF i > Len(s) THEN 0
                      ELSE IF s[i] = c THEN i ELSE IndexFrom(s, c, i + 1)
IndexOf(s, c) == IndexFrom(s, c, 1)

IsLeap(y) == (y % 4 = 0 /\ y % 100 # 0) \/ y % 400 = 0
DaysInMonth(y, m) ==
    IF m = 2 THEN (IF IsLeap(y) THEN 29 ELSE 28)
    ELSE IF m \in {4, 6, 9, 11} THEN 30 ELSE 31

\* the directives' regular expressions (_strptime.TimeRE)
TokY(t) == Len(t) = 4 /\ AllDigits(t)                       \* \d\d\d\d
TokM(t) == /\ Len(t) \in {1, 2}                             \* 1[0-2]|0[1-9]|[1-9]
           /\ AllDigits(t)
           /\ NumOf(t) \in 1..12
TokD(t) == \/ /\ Len(t) \in {1, 2}                          \* 3[01]|[12]\d|0[1-9]|[1-9]| [1-9]
              /\ AllDigits(t)
              /\ NumOf(t) \in 1..31
           \/ /\ Len(t) = 2
              /\ t[1] = " "
              /\ IsDigit(t[2])
              /\ t[2] # "0"
TokH(t) == Len(t) \in {1, 2} /\ AllDigits(t) /\ NumOf(t) \in 0..23   \* 2[0-3]|[0-1]\d|\d
TokMin(t) == Len(t) \in {1, 2} /\ AllDigits(t) /\ NumOf(t) \in 0..59 \* [0-5]\d|\d
TokS(t) == Len(t) \in {1, 2} /\ AllDigits(t) /\ NumOf(t) \in 0..61   \* 6[0-1]|[0-5]\d|\d

NoDate == [ok |-> FALSE, y |-> 0, m |-> 0, d |-> 0]

\* datetime.strptime(s, "%Y-%m-%d").date(); ok = FALSE is ValueError
ParseDate(s) ==
    LET i1 == IndexOf(s, "-")
        i2 == IF i1 = 0 THEN 0 ELSE IndexFrom(s, "-", i1 + 1)
    IN  IF i1 = 0 \/ i2 = 0 THEN NoDate
        ELSE LET ty == SubSeq(s, 1, i1 - 1)
                 tm == SubSeq(s, i1 + 1, i2 - 1)
                 td == SubSeq(s, i2 + 1, Len(s))
             IN  IF ~(TokY(ty) /\ TokM(tm) /\ TokD(td)) THEN NoDate
                 ELSE LET y == NumOf(ty)
                          m == NumOf(tm)
                          d == NumOf(LStrip(td))
                      IN  IF y >= 1 /\ d <= DaysInMonth(y, m)
                          THEN [ok |-> TRUE, y |-> y, m |-> m, d |-> d]
                          ELSE NoDate

\* the time of day of "%H:%M:%S"
ParseTime(s) ==
    LET i1 == IndexOf(s, ":")
        i2 == IF i1 = 0 THEN 0 ELSE IndexFrom(s, ":", i1 + 1)
    IN  /\ i1 # 0
        /\ i2 # 0
        /\ TokH(SubSeq(s, 1, i1 - 1))
        /\ TokMin(SubSeq(s, i1 + 1, i2 - 1))
        /\ TokS(SubSeq(s, i2 + 1, Len(s)))
        /\ NumOf(SubSeq(s, i2 + 1, Len(s))) <= 59   \* datetime(second=60) is ValueError

\* datetime.strptime(s, "%Y-%m-%dT%H:%M:%S").date(); ok = FALSE is ValueError
ParseDateTime(s) ==
    LET iT == IndexOf(s, "T")
    IN  IF iT = 0 THEN NoDate
        ELSE IF ~ParseTime(SubSeq(s, iT + 1, Len(s))) THEN NoDate
        ELSE ParseDate(SubSeq(s, 1, iT - 1))

(***************************************************************************)
(* JSON values, Python values, outcomes                                    *)
(***************************************************************************)
Fields == {"player_id", "player_name", "team_title", "position",
           "team_id", "team_name", "stadium", "manager",
           "datetime", "team_a", "team_b", "score"}

\* a JSON value held by a field: a string, an integer, or no value (key absent)
JStr(s) == [t |-> "str", s |-> s, n |-> 0]
JInt(n) == [t |-> "int", s |-> <<>>, n |-> n]
Absent == [t |-> "absent", s |-> <<>>, n |-> 0]

NoFields == [f \in Fields |-> Absent]
\* the JSON object with the keys of r (a record of values) and no others
Rec(r) == [f \in Fields |-> IF f \in DOMAIN r THEN r[f] ELSE Absent]

\* an element of a Python sequence: a dict, an int, or a flask Response object
Dict(d) == [k |-> "dict", d |-> d, n |-> 0, msg |-> ""]
Number(n) == [k |-> "int", d |-> NoFields, n |-> n, msg |-> ""]
ResponseObj(msg) == [k |-> "Response", d |-> NoFields, n |-> 200, msg |-> msg]

\* a Python list or tuple
List(items) == [t |-> "list", items |-> items]
Tuple(items) == [t |-> "tuple", items |-> items]
\* `jsonify({...}), code`: the pair a helper returns to report an error
ErrorPair(msg, code) == Tuple(<<ResponseObj(msg), Number(code)>>)
\* truth value of a sequence: non-empty
Truthy(v) == Len(v.items) > 0

\* how a call ends: it returns a value or raises an exception
Return(v) == [kind |-> "return", val |-> v, exc |-> ""]
Raise(e) == [kind |-> "raise", val |-> List(<<>>), exc |-> e]

(***************************************************************************)
(* Schemas                                                                 *)
(***************************************************************************)
Resources == {"players", "all_players", "matches", "teams"}

\* the path of each resource's file
DATA_FILES(key) ==
    IF variant = "app"
    THEN CASE key = "players"     -> "BASE_DIR/EPL_Players_2024.json"
           [] key = "all_players" -> "BASE_DIR/EPL_AllPlayers_2024.json"
           [] key = "matches"     -> "BASE_DIR/EPL_Matches_2024.json"
           [] key = "teams"       -> "BASE_DIR/EPL_Teams_2024.json"
    ELSE CASE key = "players"     -> "players.json"
           [] key = "all_players" -> "all_players.json"
           [] key = "matches"     -> "matches.json"
           [] key = "teams"       -> "teams.json"

Paths == {DATA_FILES(key) : key \in Resources}

\* field -> declared JSON type, "-" for a field the schema does not mention
generate_properties(key) ==
    [f \in Fields |->
        IF key \in {"all_players", "players"}
        THEN (IF f = "player_id" THEN "integer"
              ELSE IF f \in {"player_name", "team_title", "position"} THEN "string"
              ELSE "-")
        ELSE IF key = "teams"
        THEN (IF f = "team_id" THEN "integer"
              ELSE IF f \in {"team_name", "stadium", "manager"} THEN "string"
              ELSE "-")
        ELSE IF key = "matches"
        THEN (IF f \in {"datetime", "team_a", "team_b", "score"} THEN "string" ELSE "-")
        ELSE "-"]

generate_required(key) ==
    IF key \in {"all_players", "players"}
    THEN {"player_id", "player_name", "team_title", "position"}
    ELSE IF key = "teams" THEN {"team_id", "team_name", "stadium", "manager"}
    ELSE IF key = "matches" THEN {"datetime", "team_a", "team_b"}
    ELSE {}

\* Python None, passed as a schema
None == [kind |-> "None", props |-> [f \in Fields |-> "-"], required |-> {}]

\* SCHEMAS.get(key): a dict {"type": "array", "items": {"type": "object", ...}}
SCHEMAS(key) ==
    [kind |-> "dict",
     props |-> generate_properties(key),
     required |-> IF variant = "app"
                  THEN {f \in Fields : generate_properties(key)[f] # "-"}
                  ELSE generate_required(key)]

\* hash(x) succeeds: None is hashable, a dict is not
Hashable(schema) == schema.kind = "None"

TypeOk(v, ty) == \/ ty = "-"
                 \/ ty = "string" /\ v.t = "str"
                 \/ ty = "integer" /\ v.t = "int"

\* jsonschema.validate(instance=items, schema=schema) does not raise ValidationError
Valid(items, schema) ==
    \A i \in 1..Len(items) :
        /\ items[i].k = "dict"
        /\ \A f \in schema.required : items[i].d[f] # Absent
        /\ \A f \in Fields : items[i].d[f] # Absent => TypeOk(items[i].d[f], schema.props[f])

(***************************************************************************)
(* The disk and the loader                                                 *)
(***************************************************************************)
Missing == [k |-> "missing", data |-> <<>>]
BadJson == [k |-> "badjson", data |-> <<>>]
Json(items) == [k |-> "json", data |-> items]

\* the body of load_json_file, run on the file content `content`
load_body(content, schema) ==
    IF content.k = "missing" THEN Return(List(<<>>))            \* FileNotFoundError
    ELSE IF content.k = "badjson" THEN Return(List(<<>>))       \* json.JSONDecodeError
    ELSE IF schema.kind # "None" /\ ~Valid(content.data, schema)
         THEN Return(List(<<>>))                                \* ValidationError
    ELSE Return(List(content.data))

maxsize == 10

\* how a caller passes schema: left out, by position, or by keyword
Forms == {"default", "positional", "keyword"}

\* functools._make_key: the key is built from the arguments as they are passed,
\* so load_json_file(p), load_json_file(p, None) and load_json_file(p, schema=None)
\* have three different keys
MakeKey(form, path, schema) == [form |-> form, path |-> path, schema |-> schema]

\* the key of load_json_file(path, schema=schema), the call of the view functions
CacheKey(path, schema) == MakeKey("keyword", path, schema)

\* CacheIndex of a cache that never finds a key
CacheIndex_never_found(c, key) == 0

\* the place of key in the cache (least recently used first), 0 when it is not in
CacheIndex(c, key) == IF \E i \in 1..Len(c) : c[i].key = key
                      THEN CHOOSE i \in 1..Len(c) : c[i].key = key
                      ELSE 0
Without(c, i) == SubSeq(c, 1, i - 1) \o SubSeq(c, i + 1, Len(c))

\* Touch that leaves the entry where it was, so that the order is that of insertion
Touch_in_place(c, i) == c

\* a hit makes the entry the most recently used
Touch(c, i) == Append(Without(c, i), c[i])

\* room for a new entry: a full cache drops its least recently used entry
Room(c) == IF Len(c) >= maxsize THEN Tail(c) ELSE c

\* a call of load_json_file as functools.lru_cache runs it: the key is hashed
\* first (TypeError for an unhashable argument); a hit returns the stored value
\* and makes the entry the most recently used; a miss runs the body and stores
\* what it returned
lru_cache_wrapper(form, path, schema, c, fs) ==
    IF ~Hashable(schema)
    THEN [out |-> Raise("TypeError"), cache |-> c, reads |-> 0]
    ELSE LET key == MakeKey(form, path, schema)
             i == CacheIndex(c, key)
         IN  IF i # 0
             THEN [out |-> Return(c[i].val),
                   cache |-> Touch(c, i),
                   reads |-> 0]
             ELSE LET out == load_body(fs[path], schema)
                  IN  [out |-> out,
                       cache |-> Append(Room(c), [key |-> key, val |-> out.val]),
                       reads |-> 1]

\* load_json_file(path, schema=schema)
load_json_file(path, schema, c, fs) == lru_cache_wrapper("keyword", path, schema, c, fs)

(***************************************************************************)
(* Filters                                                                 *)
(***************************************************************************)
\* item.get(key, "").lower() raises AttributeError: the item is no dict, or
\* the value under key is not a str
KeyFails(e, key) == e.k # "dict" \/ e.d[key].t \notin {"str", "absent"}

\* item.get(key, "")
Get(e, key) == IF e.d[key].t = "absent" THEN <<>> ELSE e.d[key].s

\* KeyMatches with the value compared as given (value.lower() forgotten)
KeyMatches_value_as_given(e, key, value) == Lower(Get(e, key)) = value

\* the condition of the comprehension of filter_by_key
KeyMatches(e, key, value) == Lower(Get(e, key)) = Lower(value)

\* filter_by_key(data_list, key, value)
filter_by_key(data_list, key, value) ==
    LET items == data_list.items
        Keep(e) == KeyMatches(e, key, value)
    IN  IF \E i \in 1..Len(items) : KeyFails(items[i], key)
        THEN (IF variant = "app"
              THEN Return(List(<<>>))            \* except Exception: return []
              ELSE Raise("AttributeError"))      \* app1.py has no try
        ELSE Return(List(SelectSeq(items, Keep)))

\* what evaluating strptime(item["datetime"], ...) raises for one item, "" if nothing
DateFails(e) ==
    IF e.k # "dict" THEN "TypeError"
    ELSE IF e.d["datetime"].t = "absent" THEN "KeyError"
    ELSE IF e.d["datetime"].t # "str" THEN "TypeError"
    ELSE IF ~ParseDateTime(e.d["datetime"].s).ok THEN "ValueError"
    ELSE ""

\* DateMatches with the .date() calls forgotten: the timestamp itself is
\* compared with the target, which is midnight of the target date
DateMatches_with_time(e, target) ==
    /\ ParseDateTime(e.d["datetime"].s) = target
    /\ ParseDateTime(e.d["datetime"].s).ok
    /\ LET s == e.d["datetime"].s
           t == SubSeq(s, IndexOf(s, "T") + 1, Len(s))
           i1 == IndexOf(t, ":")
           i2 == IndexFrom(t, ":", i1 + 1)
       IN  /\ NumOf(SubSeq(t, 1, i1 - 1)) = 0
           /\ NumOf(SubSeq(t, i1 + 1, i2 - 1)) = 0
           /\ NumOf(SubSeq(t, i2 + 1, Len(t))) = 0

\* the condition of the comprehension of filter_by_date
DateMatches(e, target) == ParseDateTime(e.d["datetime"].s) = target

InvalidDateMsg == "Invalid date format. Expected YYYY-MM-DD."
SchemaFailedMsg == "Schema validation failed after filtering"

\* filter_by_date(data_list, date)
filter_by_date(data_list, date) ==
    LET items == data_list.items
        target == ParseDate(date)
        bad == {i \in 1..Len(items) : DateFails(items[i]) # ""}
        first == CHOOSE i \in bad : \A j \in bad : i <= j
        Keep(e) == DateMatches(e, target)
        kept == SelectSeq(items, Keep)
    IN  IF variant = "app"
        THEN (IF ~target.ok \/ bad # {}
              THEN Return(List(<<>>))  \* except ValueError / except Exception: return []
              ELSE Return(List(kept)))
        ELSE (IF ~target.ok THEN Return(ErrorPair(InvalidDateMsg, 400))
              ELSE IF bad # {}
              THEN (IF DateFails(items[first]) = "ValueError"
                    THEN Return(ErrorPair(InvalidDateMsg, 400))
                    ELSE Raise(DateFails(items[first])))   \* KeyError, TypeError: not caught
              ELSE IF ~Valid(kept, SCHEMAS("matches"))
              THEN Return(ErrorPair(SchemaFailedMsg, 400))
              ELSE Return(List(kept)))

(***************************************************************************)
(* Pagination                                                              *)
(***************************************************************************)
\* a query parameter: request.args.get(name) is None when it is not present
NoParam == [present |-> FALSE, s |-> <<>>]
Param(s) == [present |-> TRUE, s |-> s]

\* int(request.args.get(name, default))
IntArg(p, default) == IF p.present THEN PyInt(p.s) ELSE [ok |-> TRUE, v |-> default]

\* max(1, int(request.args.get('page', 1)))
PageOf(p) == Max(1, IntArg(p, 1).v)
\* PerPageOf without the upper limit (min(100, ...) forgotten)
PerPageOf_unclamped(p) == Max(1, IntArg(p, 50).v)
\* min(100, max(1, int(request.args.get('per_page', 50))))
PerPageOf(p) == Min(100, Max(1, IntArg(p, 50).v))

\* Slice with pages counted from the element before: data_list[start - 1:end]
Slice_one_early(v, start, end) ==
    [t |-> v.t,
     items |-> IF start >= Len(v.items) + 1 THEN <<>>
               ELSE SubSeq(v.items, Max(1, start), Min(end, Len(v.items)))]

\* data_list[start:end] for 0 <= start <= end
Slice(v, start, end) ==
    [t |-> v.t,
     items |-> IF start >= Len(v.items) THEN <<>>
               ELSE SubSeq(v.items, start + 1, Min(end, Len(v.items)))]

NoResultsMsg == "No results available for the given parameters."
BadPaginationMsg == "Invalid pagination parameters. Both must be positive integers."

\* paginate(data_list), with the request's page and per_page parameters
paginate(data_list, page, per_page) ==
    IF ~Truthy(data_list)
    THEN (IF variant = "app" THEN Return(List(<<>>))
          ELSE Return(ErrorPair(NoResultsMsg, 404)))
    ELSE IF ~IntArg(page, 1).ok \/ ~IntArg(per_page, 50).ok      \* ValueError
    THEN (IF variant = "app" THEN Return(List(<<>>))
          ELSE Return(ErrorPair(BadPaginationMsg, 400)))
    ELSE LET start == (PageOf(page) - 1) * PerPageOf(per_page)
             end == start + PerPageOf(per_page)
         IN  Return(Slice(data_list, start, end))

(***************************************************************************)
(* Request handlers                                                        *)
(***************************************************************************)
\* how a view function ends: with an HTTP response or with an exception
HResp(status, body, err) ==
    [kind |-> "response", status |-> status, body |-> body, err |-> err, exc |-> ""]
HRaise(e) == [kind |-> "raise", status |-> 0, body |-> <<>>, err |-> "", exc |-> e]
NoResp == [kind |-> "-", status |-> 0, body |-> <<>>, err |-> "", exc |-> ""]

\* flask.jsonify(v): a Response object is not JSON serializable
jsonify(v) ==
    IF \E i \in 1..Len(v.items) : v.items[i].k = "Response"
    THEN HRaise("TypeError")
    ELSE HResp(200, v.items, "")

\* return jsonify(paginate(data)), data being the outcome of the filter step
Page(filtered, r) ==
    IF filtered.kind = "raise" THEN HRaise(filtered.exc)
    ELSE jsonify(paginate(filtered.val, r.page, r.per_page).val)

\* `if team:` / `if date:`: present and not the empty string
Given(p) == p.present /\ Len(p.s) > 0

BadTeamMsg == "Invalid team parameter. Must contain only alphabetic characters."

\* get_players from the statement after the load, players being what it returned
PlayersAfterLoad(players, r) ==
    IF variant = "app"
    THEN (IF ~Truthy(players) THEN HResp(500, <<>>, "Player data not available.")
          ELSE IF Given(r.team) /\ ~IsAlpha(r.team.s) THEN HResp(400, <<>>, BadTeamMsg)
          ELSE IF Given(r.team)
          THEN Page(filter_by_key(players, "team_title", r.team.s), r)
          ELSE Page(Return(players), r))
    ELSE (IF Given(r.team) /\ ~IsAlpha(r.team.s) THEN HResp(400, <<>>, BadTeamMsg)
          ELSE IF ~Truthy(players) THEN HResp(500, <<>>, "Player data not available")
          ELSE IF Given(r.team)
          THEN Page(filter_by_key(players, "team_title", r.team.s), r)
          ELSE Page(Return(players), r))

AllPlayersAfterLoad(all_players, r) ==
    IF ~Truthy(all_players)
    THEN HResp(500, <<>>, "All players data not available")
    ELSE Page(Return(all_players), r)

MatchesAfterLoad(matches, r) ==
    IF ~Truthy(matches) THEN HResp(500, <<>>, "Match data not available")
    ELSE IF Given(r.date) THEN Page(filter_by_date(matches, r.date.s), r)
    ELSE Page(Return(matches), r)

TeamsAfterLoad(teams, r) ==
    IF ~Truthy(teams) THEN HResp(500, <<>>, "Team data not available")
    ELSE Page(Return(teams), r)

AfterLoad(key, data, r) ==
    CASE key = "players"     -> PlayersAfterLoad(data, r)
      [] key = "all_players" -> AllPlayersAfterLoad(data, r)
      [] key = "matches"     -> MatchesAfterLoad(data, r)
      [] key = "teams"       -> TeamsAfterLoad(data, r)

\* a view function: its first statement is
\*   load_json_file(DATA_FILES[key], schema=SCHEMAS.get(key))
\* and an exception of that call leaves the view function
Handle(key, r, c, fs) ==
    LET l == load_json_file(DATA_FILES(key), SCHEMAS(key), c, fs)
    IN  [resp |-> IF l.out.kind = "raise" THEN HRaise(l.out.exc)
                  ELSE AfterLoad(key, l.out.val, r),
         cache |-> l.cache,
         reads |-> l.reads]

(***************************************************************************)
(* Data                                                                    *)
(***************************************************************************)
Arsenal == <<"A","r","s","e","n","a","l">>
Chelsea == <<"C","h","e","l","s","e","a">>
Leeds == <<"L","e","e","d","s">>
Arsenal1 == Arsenal \o <<"1">>

\* "YYYY-MM-DD" and "YYYY-MM-DDTHH:MM:SS"
IsoDate(y, m, d) == Pad(y, 4) \o <<"-">> \o Pad(m, 2) \o <<"-">> \o Pad(d, 2)
IsoDateTime(y, m, d, hh, mm, ss) ==
    IsoDate(y, m, d) \o <<"T">> \o Pad(hh, 2) \o <<":">> \o Pad(mm, 2) \o <<":">> \o Pad(ss, 2)

Player(id, name, team) ==
    Dict(Rec([player_id |-> JInt(id), player_name |-> JStr(name),
              team_title |-> JStr(team), position |-> JStr(<<"F">>)]))
Team(id, name) ==
    Dict(Rec([team_id |-> JInt(id), team_name |-> JStr(name),
              stadium |-> JStr(<<"s">>), manager |-> JStr(<<"m">>)]))
Match(when, a, b) ==
    Dict(Rec([datetime |-> JStr(when), team_a |-> JStr(a), team_b |-> JStr(b),
              score |-> JStr(<<"1","-","0">>)]))

\* a file that satisfies its schema in both revisions
GoodData(key) ==
    CASE key \in {"players", "all_players"} ->
            <<Player(1, <<"x">>, Arsenal), Player(2, <<"y">>, Chelsea)>>
      [] key = "teams" -> <<Team(1, Arsenal), Team(2, Chelsea)>>
      [] key = "matches" ->
            <<Match(IsoDateTime(2024, 1, 1, 15, 0, 0), Arsenal, Chelsea),
              Match(IsoDateTime(2024, 1, 2, 12, 0, 0), Chelsea, Arsenal)>>

\* a JSON array whose second element breaks the schema: a required field is
\* missing (players, all_players, teams) or a field has the wrong type (matches)
BadData(key) ==
    CASE key \in {"players", "all_players"} ->
            <<Player(1, <<"x">>, Arsenal), Dict(Rec([player_id |-> JInt(2)]))>>
      [] key = "teams" -> <<Team(1, Arsenal), Dict(Rec([team_id |-> JInt(2)]))>>
      [] key = "matches" ->
            <<Match(IsoDateTime(2024, 1, 1, 15, 0, 0), Arsenal, Chelsea),
              Dict(Rec([datetime |-> JInt(20240102), team_a |-> JStr(Chelsea),
                        team_b |-> JStr(Arsenal), score |-> JStr(<<"1","-","0">>)]))>>

KeyOf(path) == CHOOSE key \in Resources : DATA_FILES(key) = path

Contents(key) == {Missing, BadJson, Json(GoodData(key)), Json(BadData(key))}

TeamArgs == {NoParam, Param(Arsenal), Param(Leeds), Param(Arsenal1)}
DateArgs == {NoParam, Param(IsoDate(2024, 1, 1)), Param(IsoDate(2024, 3, 3)),
             Param(<<"0","1","-","0","1","-","2","0","2","4">>)}
PageArgs == {NoParam, Param(<<"x">>)}
PerPageArgs == {NoParam, Param(ToStr(1))}

\* the number of times the environment changes a file
MaxWrites == 1
\* the number of entries direct calls of load_json_file may leave in the cache
MaxCached == 1

(***************************************************************************)
(* The server                                                              *)
(***************************************************************************)
Request(op, team, date, page, per_page) ==
    [op |-> op, team |-> team, date |-> date, page |-> page, per_page |-> per_page,
     path |-> "", schema |-> None, content |-> Missing]
NoReq == Request("-", NoParam, NoParam, NoParam, NoParam)
NoRet == [kind |-> "-", val |-> List(<<>>), exc |-> ""]

\* a request is served by the view function of `key`; req keeps what the file
\* held when the request arrived
Serve(key, r) ==
    LET h == Handle(key, r, cache, files)
    IN  /\ req' = [r EXCEPT !.path = DATA_FILES(key), !.schema = SCHEMAS(key),
                            !.content = files[DATA_FILES(key)]]
        /\ resp' = h.resp
        /\ cache' = h.cache
        /\ reads' = h.reads
        /\ ret' = NoRet
        /\ UNCHANGED <<variant, files, writes, args, pc>>

get_players ==
    \E team \in TeamArgs, page \in PageArgs, per_page \in PerPageArgs :
        Serve("players", Request("get_players", team, NoParam, page, per_page))

get_all_players ==
    \E page \in PageArgs, per_page \in PerPageArgs :
        Serve("all_players", Request("get_all_players", NoParam, NoParam, page, per_page))

get_matches ==
    \E date \in DateArgs, page \in PageArgs, per_page \in PerPageArgs :
        Serve("matches", Request("get_matches", NoParam, date, page, per_page))

get_teams ==
    \E page \in PageArgs, per_page \in PerPageArgs :
        Serve("teams", Request("get_teams", NoParam, NoParam, page, per_page))

\* load_json_file called directly, with no schema or with the resource's schema
CallLoad ==
    \E path \in Paths :
        \E schema \in {None, SCHEMAS(KeyOf(path))} :
            LET l == load_json_file(path, schema, cache, files)
            IN  /\ Len(l.cache) <= MaxCached
                /\ req' = [NoReq EXCEPT !.op = "load_json_file", !.path = path,
                                        !.schema = schema, !.content = files[path]]
                /\ resp' = NoResp
                /\ ret' = l.out
                /\ cache' = l.cache
                /\ reads' = l.reads
                /\ UNCHANGED <<variant, files, writes, args, pc>>

\* the environment creates, replaces, corrupts or deletes the file at path
WriteTo(path) ==
    \E content \in Contents(KeyOf(path)) :
        /\ writes < MaxWrites
        /\ content # files[path]
        /\ files' = [files EXCEPT ![path] = content]
        /\ writes' = writes + 1
        /\ req' = NoReq
        /\ resp' = NoResp
        /\ ret' = NoRet
        /\ reads' = 0
        /\ UNCHANGED <<variant, cache, args, pc>>

WriteFile == \E path \in Paths : WriteTo(path)

NoArgs == [fn |-> "-"]

Init == /\ variant \in Variants
        /\ \E good \in BOOLEAN :
              files = [path \in Paths |->
                          IF good THEN Json(GoodData(KeyOf(path))) ELSE Missing]
        /\ cache = <<>>
        /\ req = NoReq
        /\ resp = NoResp
        /\ reads = 0
        /\ writes = 0
        /\ args = NoArgs
        /\ ret = NoRet
        /\ pc = "-"

Next == \/ get_players
        \/ get_all_players
        \/ get_matches
        \/ get_teams
        \/ CallLoad
        \/ WriteFile

Spec == Init /\ [][Next]_vars

(***************************************************************************)
(* Direct calls of paginate                                                *)
(***************************************************************************)
\* what the caller means a query parameter to be: nothing, an integer, a text
Unset == [kind |-> "absent", n |-> 0, s |-> <<>>]
Whole(n) == [kind |-> "int", n |-> n, s |-> ToStr(n)]
Text(s) == [kind |-> "text", n |-> 0, s |-> s]
\* the query parameter that says it
ParamOf(a) == IF a.kind = "absent" THEN NoParam ELSE Param(a.s)

\* lengths of the record sequences paginated: 0..MaxSmallLen and 120
MaxSmallLen == 3
\* pages asked for: -1..MaxPage
MaxPage == 4

Players(n) == [i \in 1..n |-> Player(i, <<"p">>, Arsenal)]
PaginateLens == (0..MaxSmallLen) \cup {120}
NotWhole == {Text(<<"x">>), Text(<<"1",".","5">>), Text(<<>>)}
PageChoices == {Unset} \cup {Whole(n) : n \in (0 - 1)..MaxPage} \cup NotWhole
PerPageChoices == {Unset} \cup {Whole(n) : n \in {0 - 1, 0, 1, 2, 50, 100, 101, 150}}
                    \cup NotWhole

Idle == /\ files = <<>>
        /\ cache = <<>>
        /\ req = NoReq
        /\ resp = NoResp
        /\ reads = 0
        /\ writes = 0
        /\ ret = NoRet
        /\ pc = "call"

InitPaginate ==
    /\ variant \in Variants
    /\ Idle
    /\ \E n \in PaginateLens, page \in PageChoices, per_page \in PerPageChoices :
          args = [fn |-> "paginate", data |-> List(Players(n)),
                  page |-> page, per_page |-> per_page]

call_paginate ==
    /\ pc = "call"
    /\ args.fn = "paginate"
    /\ ret' = paginate(args.data, ParamOf(args.page), ParamOf(args.per_page))
    /\ pc' = "done"
    /\ UNCHANGED <<variant, files, cache, req, resp, reads, writes, args>>

SpecPaginate == InitPaginate /\ [][call_paginate]_vars

(***************************************************************************)
(* Direct calls of filter_by_key                                           *)
(***************************************************************************)
\* the longest record sequence filtered
MaxRecs == 2

SeqsUpTo(S, n) == UNION {[1..k -> S] : k \in 0..n}

WithTeam(v) == Dict(Rec([player_id |-> JInt(1), player_name |-> JStr(<<"x">>),
                         team_title |-> v, position |-> JStr(<<"F","w">>)]))
KeyPool == {WithTeam(JStr(<<"A","b">>)), WithTeam(JStr(<<"A","B">>)),
            WithTeam(JStr(<<"a","b">>)), WithTeam(JStr(<<"b">>)),
            WithTeam(JStr(<<>>)), WithTeam(Absent), WithTeam(JInt(7))}
KeyValues == {<<"a","b">>, <<"A","B">>, <<"a","B">>, <<"b">>, <<"B">>, <<>>,
              <<"f","W">>, <<"a","1">>}
KeyFields == {"team_title", "position"}

InitFilterKey ==
    /\ variant \in Variants
    /\ Idle
    /\ \E data \in SeqsUpTo(KeyPool, MaxRecs), key \in KeyFields, value \in KeyValues :
          args = [fn |-> "filter_by_key", data |-> List(data), key |-> key, value |-> value]

call_filter_by_key ==
    /\ pc = "call"
    /\ args.fn = "filter_by_key"
    /\ ret' = filter_by_key(args.data, args.key, args.value)
    /\ pc' = "done"
    /\ UNCHANGED <<variant, files, cache, req, resp, reads, writes, args>>

SpecFilterKey == InitFilterKey /\ [][call_filter_by_key]_vars

(***************************************************************************)
(* Direct calls of filter_by_date                                          *)
(***************************************************************************)
\* a calendar day, and no day
Day(y, m, d) == [ok |-> TRUE, y |-> y, m |-> m, d |-> d]

\* a record of the pool and the day its datetime field is meant to hold
\* (NoDate: the field is missing or is no well-formed timestamp)
Stamped(e, day) == [e |-> e, day |-> day]
OnlyDatetime(when) == Dict(Rec([datetime |-> JStr(when)]))

DatePool ==
    {Stamped(Match(IsoDateTime(2024, 1, 1, 15, 0, 0), Arsenal, Chelsea), Day(2024, 1, 1)),
     Stamped(Match(IsoDateTime(2024, 1, 2, 12, 0, 0), Chelsea, Arsenal), Day(2024, 1, 2)),
     Stamped(Match(IsoDateTime(2024, 1, 1, 0, 0, 0), Leeds, Arsenal), Day(2024, 1, 1)),
     Stamped(OnlyDatetime(IsoDateTime(2024, 1, 1, 9, 30, 0)), Day(2024, 1, 1)),
     Stamped(Match(IsoDate(2024, 1, 1), Leeds, Chelsea), NoDate),
     Stamped(Dict(Rec([team_a |-> JStr(Leeds), team_b |-> JStr(Chelsea)])), NoDate),
     Stamped(Dict(Rec([datetime |-> JInt(20240101), team_a |-> JStr(Leeds),
                       team_b |-> JStr(Chelsea)])), NoDate)}

\* a date argument and what it is: a valid YYYY-MM-DD date ("valid", with its
\* day), a calendar date not written YYYY-MM-DD ("loose"), or no date ("invalid")
DateArg(s, kind, day) == [s |-> s, kind |-> kind, day |-> day]
DateChoices ==
    {DateArg(IsoDate(2024, 1, 1), "valid", Day(2024, 1, 1)),
     DateArg(IsoDate(2024, 1, 2), "valid", Day(2024, 1, 2)),
     DateArg(IsoDate(2023, 12, 31), "valid", Day(2023, 12, 31)),
     DateArg(<<"2","0","2","4","-","1","-","1">>, "loose", Day(2024, 1, 1)),
     DateArg(<<"0","1","-","0","1","-","2","0","2","4">>, "invalid", NoDate),
     DateArg(IsoDate(2024, 2, 30), "invalid", NoDate),
     DateArg(Arsenal, "invalid", NoDate)}

InitFilterDate ==
    /\ variant \in Variants
    /\ Idle
    /\ \E recs \in SeqsUpTo(DatePool, MaxRecs), date \in DateChoices :
          args = [fn |-> "filter_by_date",
                  data |-> List([i \in 1..Len(recs) |-> recs[i].e]),
                  days |-> [i \in 1..Len(recs) |-> recs[i].day],
                  date |-> date]

call_filter_by_date ==
    /\ pc = "call"
    /\ args.fn = "filter_by_date"
    /\ ret' = filter_by_date(args.data, args.date.s)
    /\ pc' = "done"
    /\ UNCHANGED <<variant, files, cache, req, resp, reads, writes, args>>

SpecFilterDate == InitFilterDate /\ [][call_filter_by_date]_vars

(***************************************************************************)
(* Direct calls of load_json_file, one after the other                     *)
(***************************************************************************)
\* the number of calls with arguments not used before
MaxLoads == 11
\* the number of calls that repeat the arguments of an earlier call
MaxAgain == 1

ResourceOrder == <<"players", "all_players", "matches", "teams">>
FormOrder == <<"default", "positional", "keyword">>
NKeys == Len(ResourceOrder) * Len(FormOrder)

\* the arguments of the n-th new call: the files in turn, each without schema,
\* with None by position and with schema=None
CallAt(n) ==
    LET k == (n - 1) % NKeys
    IN  MakeKey(FormOrder[(k % Len(FormOrder)) + 1],
                DATA_FILES(ResourceOrder[(k \div Len(FormOrder)) + 1]),
                None)

\* the body of load_json_file returns [] for this content because the load failed
Fails(content, schema) ==
    \/ content.k \in {"missing", "badjson"}
    \/ schema.kind # "None" /\ ~Valid(content.data, schema)

KeysOf(c) == {c[i].key : i \in 1..Len(c)}

\* the sequence s without the element x
Remove(s, x) == LET Other(y) == y # x IN SelectSeq(s, Other)

\* what is remembered of the calls: how many there were, the keys called so
\* far in the order of their last call, the cache before the last call, and
\* the keys whose entry was stored by a failed load
NoCalls ==
    [fn |-> "load_json_file", loads |-> 0, again |-> 0,
     used |-> <<>>, before |-> <<>>, failed |-> {}]

\* load_json_file is called with the arguments that make `key`
Call(key, loads, again) ==
    LET l == lru_cache_wrapper(key.form, key.path, key.schema, cache, files)
        failed == IF l.reads = 1 /\ Fails(files[key.path], key.schema) THEN {key} ELSE {}
    IN  /\ req' = [NoReq EXCEPT !.op = "load_json_file", !.path = key.path,
                                !.schema = key.schema, !.content = files[key.path]]
        /\ resp' = NoResp
        /\ ret' = l.out
        /\ cache' = l.cache
        /\ reads' = l.reads
        /\ args' = [args EXCEPT !.loads = @ + loads,
                                !.again = @ + again,
                                !.used = Append(Remove(@, key), key),
                                !.before = cache,
                                !.failed = IF l.reads = 0 THEN @ \cap KeysOf(l.cache)
                                           ELSE ((@ \ {key}) \cap KeysOf(l.cache)) \cup failed]
        /\ UNCHANGED <<variant, files, writes, pc>>

LoadNext ==
    /\ args.loads < MaxLoads
    /\ Call(CallAt(args.loads + 1), 1, 0)

LoadAgain ==
    /\ args.again < MaxAgain
    /\ \E n \in 1..Min(args.loads, NKeys) : Call(CallAt(n), 0, 1)

InitCache ==
    /\ variant \in Variants
    /\ \E good \in BOOLEAN :
          files = [path \in Paths |->
                      IF good THEN Json(GoodData(KeyOf(path))) ELSE Missing]
    /\ cache = <<>>
    /\ req = NoReq
    /\ resp = NoResp
    /\ reads = 0
    /\ writes = 0
    /\ args = NoCalls
    /\ ret = NoRet
    /\ pc = "-"

NextCache == LoadNext \/ LoadAgain

SpecCache == InitCache /\ [][NextCache]_vars

(***************************************************************************)
(* Loads and requests of one resource while its file changes               *)
(***************************************************************************)
\* load_json_file is called for the file of teams, in one of the three ways
LoadTeams == \E form \in Forms : Call(MakeKey(form, DATA_FILES("teams"), None), 0, 0)

\* the environment creates, replaces, corrupts or deletes the file of teams
WriteTeams == WriteTo(DATA_FILES("teams"))

NextReload == \/ LoadTeams
              \/ WriteTeams
              \/ get_teams

SpecReload == InitCache /\ [][NextReload]_vars

(***************************************************************************)
(* Concurrent loads of one resource                                        *)
(***************************************************************************)
\* the number of threads that serve requests at the same time
MaxThreads == 2
Threads == 1..MaxThreads

\* what a thread runs: the view function get_teams, or load_json_file called
\* directly on the file of teams without a schema
Kinds == {"get_teams", "load_json_file"}

\* the arguments of the thread's call of load_json_file
KeyOfThread(kind) ==
    IF kind = "get_teams"
    THEN CacheKey(DATA_FILES("teams"), SCHEMAS("teams"))
    ELSE MakeKey("default", DATA_FILES("teams"), None)

InitRace ==
    /\ variant \in Variants
    /\ \E content \in {Missing, Json(GoodData("teams"))} :
          files = [path \in Paths |->
                      IF path = DATA_FILES("teams") THEN content
                      ELSE Json(GoodData(KeyOf(path)))]
    /\ cache = <<>>
    /\ req = NoReq
    /\ resp = [t \in Threads |-> NoResp]
    /\ reads = [t \in Threads |-> 0]
    /\ writes = 0
    /\ args \in [Threads -> Kinds]
    /\ ret = [t \in Threads |-> NoRet]
    /\ pc = [t \in Threads |-> "call"]

\* the wrapper of lru_cache hashes the key and looks it up: TypeError for an
\* unhashable argument, the stored value on a hit, the body on a miss
Lookup(t) ==
    LET key == KeyOfThread(args[t])
        i == CacheIndex(cache, key)
    IN  /\ pc[t] = "call"
        /\ IF ~Hashable(key.schema)
           THEN /\ ret' = [ret EXCEPT ![t] = Raise("TypeError")]
                /\ pc' = [pc EXCEPT ![t] = "return"]
                /\ cache' = cache
           ELSE IF i # 0
           THEN /\ ret' = [ret EXCEPT ![t] = Return(cache[i].val)]
                /\ pc' = [pc EXCEPT ![t] = "return"]
                /\ cache' = Touch(cache, i)
           ELSE /\ ret' = ret
                /\ pc' = [pc EXCEPT ![t] = "body"]
                /\ cache' = cache
        /\ UNCHANGED <<variant, files, req, resp, reads, writes, args>>

\* the body of load_json_file runs outside the lock of the cache
Body(t) ==
    LET key == KeyOfThread(args[t])
    IN  /\ pc[t] = "body"
        /\ ret' = [ret EXCEPT ![t] = load_body(files[key.path], key.schema)]
        /\ reads' = [reads EXCEPT ![t] = @ + 1]
        /\ pc' = [pc EXCEPT ![t] = "store"]
        /\ UNCHANGED <<variant, files, cache, req, resp, writes, args>>

\* back in the wrapper: the result is stored unless another thread stored the
\* key while the body ran
Store(t) ==
    LET key == KeyOfThread(args[t])
    IN  /\ pc[t] = "store"
        /\ cache' = IF CacheIndex(cache, key) # 0 THEN cache
                    ELSE Append(Room(cache), [key |-> key, val |-> ret[t].val])
        /\ pc' = [pc EXCEPT ![t] = "return"]
        /\ UNCHANGED <<variant, files, req, resp, reads, writes, args, ret>>

\* load_json_file returns to its caller: the view function goes on with what
\* it got, or the exception leaves it
Finish(t) ==
    /\ pc[t] = "return"
    /\ resp' = [resp EXCEPT ![t] =
                   IF args[t] # "get_teams" THEN NoResp
                   ELSE IF ret[t].kind = "raise" THEN HRaise(ret[t].exc)
                   ELSE AfterLoad("teams", ret[t].val, NoReq)]
    /\ pc' = [pc EXCEPT ![t] = "done"]
    /\ UNCHANGED <<variant, files, cache, req, reads, writes, args, ret>>

NextRace == \E t \in Threads : Lookup(t) \/ Body(t) \/ Store(t) \/ Finish(t)

SpecRace == InitRace /\ [][NextRace]_vars

(***************************************************************************)
(* Properties                                                              *)
(***************************************************************************)
Handlers == {"get_players", "get_all_players", "get_matches", "get_teams"}

\* a helper reported an error with the HTTP status `code`
Rejected(out, code) ==
    /\ out.kind = "return"
    /\ out.val.t = "tuple"
    /\ Len(out.val.items) = 2
    /\ out.val.items[1].k = "Response"
    /\ out.val.items[2] = Number(code)

\* C1: for each of the four handlers, when the backing file does not exist the
\* request ends with the HTTP 500 "not available" response and no exception
\* leaves the handler.
C1_MissingFileUnavailable ==
    (req.op \in Handlers /\ req.content = Missing)
        => (resp.kind = "response" /\ resp.status = 500)

\* C2: load_json_file(path, schema) returns the empty sequence when the file is
\* missing, is not valid JSON, or a schema is supplied and an element breaks
\* it; in every other case it returns the complete array of the file.
C2_LoadEmptyOrComplete ==
    req.op = "load_json_file" =>
        LET fails == \/ req.content.k \in {"missing", "badjson"}
                     \/ req.schema.kind # "None" /\ ~Valid(req.content.data, req.schema)
        IN  ret = Return(List(IF fails THEN <<>> ELSE req.content.data))

\* C3: an invalid date makes filter_by_date signal InvalidArgument (the 400
\* error), and not return an empty or filtered list that reads as a success.
C3_InvalidDateRejected ==
    (pc = "done" /\ args.date.kind = "invalid" /\ Len(args.data.items) > 0)
        => Rejected(ret, 400)

\* C4: paginate on an empty input sequence returns an empty sequence, whatever
\* page and per_page hold, so that the handler answers 200 with [].
C4_EmptyInputEmptyPage ==
    (pc = "done" /\ Len(args.data.items) = 0) => ret = Return(List(<<>>))

\* C5: in get_players a team value that is not purely alphabetic is answered
\* with HTTP 400 and the request reads no file and adds nothing to the cache.
C5_BadTeamRejectedBeforeLoad ==
    (req.op = "get_players" /\ Given(req.team) /\ ~IsAlpha(req.team.s))
        => (resp.kind = "response" /\ resp.status = 400 /\ reads = 0)

\* the elements of data at indices [start, start + size), cut at the end of data
PageIs(out, data, start, size) ==
    LET n == Max(0, Min(size, Len(data) - start))
    IN  /\ out.kind = "return"
        /\ out.val.t = "list"
        /\ Len(out.val.items) = n
        /\ \A i \in 1..n : out.val.items[i] = data[start + i]

\* C6: for a non-empty sequence, an integer page >= 1 and per_page in 1..100,
\* paginate returns exactly the elements at indices
\* [(page-1)*per_page, (page-1)*per_page + per_page), in order, cut at the end
\* of the input, and an empty sequence when the start is beyond the end; of
\* 120 records with per_page 50, page 1 has 50, page 3 has 20, page 4 none.
C6_PaginateSlice ==
    (/\ pc = "done"
     /\ Len(args.data.items) > 0
     /\ args.page.kind = "int"
     /\ args.page.n >= 1
     /\ args.per_page.kind = "int"
     /\ args.per_page.n \in 1..100)
        => /\ PageIs(ret, args.data.items,
                     (args.page.n - 1) * args.per_page.n, args.per_page.n)
           /\ (Len(args.data.items) = 120 /\ args.per_page.n = 50)
                 => /\ args.page.n = 1 => Len(ret.val.items) = 50
                    /\ args.page.n = 3 => Len(ret.val.items) = 20
                    /\ args.page.n = 4 => Len(ret.val.items) = 0

\* page 3 of 120 records, 50 to the page, holds the last 20
C6_Witness ==
    /\ pc = "done"
    /\ Len(args.data.items) = 120
    /\ args.page = Whole(3)
    /\ args.per_page = Whole(50)
    /\ ret.kind = "return"
    /\ Len(ret.val.items) = 20
    /\ ret.val.items[1] = args.data.items[101]

\* C7: the effective per_page is 50 when the parameter is absent, 100 for an
\* integer above 100, 1 for an integer below 1 and the given value otherwise,
\* and no page holds more than 100 records.
C7_PerPageClamped ==
    /\ (/\ pc = "done"
        /\ Len(args.data.items) > 0
        /\ args.page.kind = "absent" \/ (args.page.kind = "int" /\ args.page.n >= 1)
        /\ args.per_page.kind \in {"absent", "int"})
          => LET n == args.per_page.n
                 size == IF args.per_page.kind = "absent" THEN 50
                         ELSE IF n > 100 THEN 100
                         ELSE IF n < 1 THEN 1
                         ELSE n
                 page == IF args.page.kind = "absent" THEN 1 ELSE args.page.n
             IN  PageIs(ret, args.data.items, (page - 1) * size, size)
    /\ (pc = "done" /\ ret.kind = "return") => Len(ret.val.items) <= 100

\* per_page=150 over 120 records gives the first 100
C7_Witness ==
    /\ pc = "done"
    /\ Len(args.data.items) = 120
    /\ args.page = Unset
    /\ args.per_page = Whole(150)
    /\ ret.kind = "return"
    /\ ret.val.t = "list"
    /\ Len(ret.val.items) = 100

\* C8: page is 1 when absent and for every integer page below 1; a page or
\* per_page that is no integer is either clamped (to page 1, to per_page 50
\* or 1) or rejected with the 400 error, so over non-empty data the result is
\* never an empty list.
C8_PaginationPolicy ==
    /\ (/\ pc = "done"
        /\ Len(args.data.items) > 0
        /\ args.page.kind = "absent" \/ (args.page.kind = "int" /\ args.page.n < 1)
        /\ args.per_page.kind = "int"
        /\ args.per_page.n \in 1..100)
          => PageIs(ret, args.data.items, 0, args.per_page.n)
    /\ (/\ pc = "done"
        /\ Len(args.data.items) > 0
        /\ args.page.kind = "text" \/ args.per_page.kind = "text")
          => \/ Rejected(ret, 400)
             \/ ret.kind = "return" /\ ret.val.t = "list" /\ Len(ret.val.items) > 0

\* two strings that differ at most in the case of their letters
SameButCase(v, w) ==
    /\ Len(v) = Len(w)
    /\ \A i \in 1..Len(v) :
          \/ v[i] = w[i]
          \/ \E j \in 1..Len(LowerLetters) :
                {v[i], w[i]} = {LowerLetters[j], UpperLetters[j]}

\* the value a record holds under key, the empty string when it holds none
Held(e, key) == IF e.d[key] = Absent THEN <<>> ELSE e.d[key].s

\* C9: over records whose field values are strings, filter_by_key keeps, in
\* order, the records whose value equals the given one up to letter case; it
\* returns the same for two values that differ only in letter case, and
\* filtering its result again by the same field and value changes nothing.
C9_FilterByKeyCaseAndIdempotent ==
    (/\ pc = "done"
     /\ \A i \in 1..Len(args.data.items) :
           args.data.items[i].d[args.key].t \in {"str", "absent"})
        => LET Same(e) == SameButCase(Held(e, args.key), args.value)
           IN  /\ ret = Return(List(SelectSeq(args.data.items, Same)))
               /\ \A w \in KeyValues :
                     SameButCase(args.value, w)
                        => filter_by_key(args.data, args.key, w) = ret
               /\ filter_by_key(ret.val, args.key, args.value) = ret

\* "aB" keeps the record of team "Ab" and drops the record of team "b"
C9_Witness ==
    /\ pc = "done"
    /\ args.key = "team_title"
    /\ args.value = <<"a","B">>
    /\ args.data.items = <<WithTeam(JStr(<<"A","b">>)), WithTeam(JStr(<<"b">>))>>
    /\ ret = Return(List(<<WithTeam(JStr(<<"A","b">>))>>))

\* the records of data meant for the day `day`, in order
RECURSIVE OnDay(_, _, _)
OnDay(data, days, day) ==
    IF Len(data) = 0 THEN <<>>
    ELSE (IF days[1] = day THEN <<data[1]>> ELSE <<>>)
            \o OnDay(Tail(data), Tail(days), day)

\* a match record as the schema of matches wants it: team_a and team_b are
\* strings and score, when there is one, is a string
HasTeams(e) ==
    /\ e.d["team_a"].t = "str"
    /\ e.d["team_b"].t = "str"
    /\ e.d["score"].t \in {"str", "absent"}

LastKey == args.used[Len(args.used)]

\* the entries the cache held before the last call for the path and the schema
\* of that call, however the schema was passed
SamePathAndSchema ==
    {i \in 1..Len(args.before) :
        /\ args.before[i].key.path = LastKey.path
        /\ args.before[i].key.schema = LastKey.schema}

C12_BadRecordSkipped ==
    (/\ pc = "done"
     /\ args.fn = "filter_by_date"
     /\ args.date.kind = "valid"
     /\ \E i \in 1..Len(args.days) : ~args.days[i].ok
     /\ \A i \in 1..Len(args.days) :
           args.days[i] = args.date.day => HasTeams(args.data.items[i]))
        => ret = Return(List(OnDay(args.data.items, args.days, args.date.day)))

\* C13: filter_by_key takes a record without the field as holding the empty
\* string, so for a non-empty value it keeps no such record and filters the
\* others as usual; and when a record holds something other than a string
\* under the field, it returns the empty sequence and raises nothing.
C13_MissingFieldAndInternalError ==
    (pc = "done" /\ args.fn = "filter_by_key")
        => LET items == args.data.items
               Same(e) == SameButCase(Held(e, args.key), args.value)
           IN  IF \E i \in 1..Len(items) : items[i].d[args.key].t \notin {"str", "absent"}
               THEN ret = Return(List(<<>>))
               ELSE /\ ret = Return(List(SelectSeq(items, Same)))
                    /\ Len(args.value) > 0
                          => \A i \in 1..Len(ret.val.items) :
                                ret.val.items[i].d[args.key] # Absent

\* the keys called before the last call, in the order of their last use
UsedBefore == SubSeq(args.used, 1, Len(args.used) - 1)

\* of the keys the cache held before the last call, the one used longest ago
LeastRecentlyUsed ==
    LET in == {i \in 1..Len(UsedBefore) : UsedBefore[i] \in KeysOf(args.before)}
    IN  UsedBefore[CHOOSE i \in in : \A j \in in : i <= j]

\* what a call of load_json_file may do to the entries of the cache: a call
\* with a new key that finds the cache full removes the least recently used
\* entry and nothing else, and every other call removes nothing
EvictsLeastRecentlyUsed ==
    (req.op = "load_json_file" /\ args.fn = "load_json_file")
        => IF LastKey \notin KeysOf(args.before) /\ Len(args.before) = maxsize
           THEN KeysOf(cache) = (KeysOf(args.before) \ {LeastRecentlyUsed}) \cup {LastKey}
           ELSE KeysOf(cache) = KeysOf(args.before) \cup {LastKey}

LoadedAlone(schema) ==
    LET content == files[DATA_FILES("teams")]
    IN  Return(List(IF Fails(content, schema) THEN <<>> ELSE content.data))

\* C15: when concurrent requests for teams have all ended, whatever the
\* interleaving, each got the record sequence a load running alone gives, the
\* cache holds exactly one entry for the file of teams, and no request read
\* the file more than once.
C15_RacingRequests ==
    (\A t \in Threads : pc[t] = "done" /\ args[t] = "get_teams")
        => /\ \A t \in Threads :
                 /\ ret[t] = LoadedAlone(SCHEMAS("teams"))
                 /\ reads[t] <= 1
           /\ Cardinality({i \in 1..Len(cache) :
                              cache[i].key.path = DATA_FILES("teams")}) = 1

\* a call of load_json_file found its key in the cache, stored by a failed load
HitOnFailedLoad ==
    /\ req.op = "load_json_file"
    /\ args.fn = "load_json_file"
    /\ LastKey \in KeysOf(args.before)
    /\ LastKey \in args.failed

\* C16: while the cache holds the entry of a failed load (the file was missing,
\* not valid JSON or schema-invalid), a call with the same arguments returns
\* the empty sequence and reads no file, whatever the file holds by then, and
\* a request to the handler of that file is answered with HTTP 500.
C16_FailedLoadSticks ==
    /\ HitOnFailedLoad => (ret = Return(List(<<>>)) /\ reads = 0)
    /\ (/\ req.op \in Handlers
        /\ args.fn = "load_json_file"
        /\ \E key \in args.failed : key.path = req.path)
          => (resp.kind = "response" /\ resp.status = 500)
====
